---- MODULE Spec2Model ----
(***************************************************************************)
(* Model of scripts/build_feed.py: fetch_source (GET with retry/backoff),  *)
(* extract_entry_number (ordered regular expressions over an entry's id,   *)
(* title and link hrefs), normalise_feed (self link, updated backfill,     *)
(* enclosure type cleanup, alternate link rewrite, feed-level updated) and *)
(* main (fetch, normalise, write feed.xml, exit code).                     *)
(*                                                                         *)
(* Python str values are TLA+ strings; a value that may be None is a       *)
(* record [isNone, str]; an element that may be missing is a record        *)
(* [exists, text].                                                         *)
(***************************************************************************)
EXTENDS Integers, Sequences, FiniteSets, TLC

VARIABLES
    pc,             \* position of main: "fetch", "normalise", "open", "write", "exit"
    max_retries,    \* fetch_source's parameter
    attempt,        \* loop variable of fetch_source
    backoff,        \* seconds the next time.sleep will take
    sleeps,         \* every time.sleep made so far, in order
    resps,          \* outcome of every requests.get made so far, in order
    xml_text,       \* text returned by fetch_source
    out_xml,        \* bytes returned by normalise_feed
    file,           \* feed.xml on disk
    exit_code,      \* process exit status (-1 while running)
    stderr,         \* what main printed to sys.stderr
    FEED_SELF_URL,  \* os.getenv("FEED_SELF_URL")
    doc0,           \* normalise_feed applied twice: the input text,
    doc1,           \*   the output of the first application,
    doc2,           \*   the output of the second application,
    runs,           \*   and how many applications were made
    entry,          \* extract_entry_number: its argument,
    entry_no,       \*   its result,
    called          \*   and whether it has been called

vars == <<pc, max_retries, attempt, backoff, sleeps, resps, xml_text, out_xml, file,
          exit_code, stderr, FEED_SELF_URL, doc0, doc1, doc2, runs, entry, entry_no,
          called>>

-----------------------------------------------------------------------------
(* Python values *)

None == [isNone |-> TRUE, str |-> ""]
Str(s) == [isNone |-> FALSE, str |-> s]
\* truthiness of an Optional[str]
Truthy(t) == ~t.isNone /\ t.str # ""

\* The printable ASCII characters in code point order: 32 (space) to 95, and 97 to 126.
AsciiLow == " !\"#$%&'()*+,-./0123456789:;<=>?@ABCDEFGHIJKLMNOPQRSTUVWXYZ[\\]^_"
AsciiHigh == "abcdefghijklmnopqrstuvwxyz{|}~"
Char(s, i) == SubSeq(s, i, i)
\* the control characters that \s matches, with their code points
Controls == <<[c |-> "\t", code |-> 9], [c |-> "\n", code |-> 10],
              [c |-> "\f", code |-> 12], [c |-> "\r", code |-> 13]>>
AsciiChars == {Char(AsciiLow, k) : k \in 1..Len(AsciiLow)}
                \cup {Char(AsciiHigh, k) : k \in 1..Len(AsciiHigh)}
                \cup {Controls[k].c : k \in 1..Len(Controls)}
\* ord(c)
CharCode == [c \in AsciiChars |->
               IF \E k \in 1..Len(AsciiLow) : Char(AsciiLow, k) = c
               THEN 31 + (CHOOSE k \in 1..Len(AsciiLow) : Char(AsciiLow, k) = c)
               ELSE IF \E k \in 1..Len(AsciiHigh) : Char(AsciiHigh, k) = c
               THEN 96 + (CHOOSE k \in 1..Len(AsciiHigh) : Char(AsciiHigh, k) = c)
               ELSE Controls[CHOOSE k \in 1..Len(Controls) : Controls[k].c = c].code]
\* c.lower(): the case folding re.IGNORECASE applies to ASCII text
LowerOf == [c \in AsciiChars |->
              IF CharCode[c] >= 65 /\ CharCode[c] <= 90
              THEN Char(AsciiHigh, CharCode[c] - 64) ELSE c]

RECURSIVE FirstDiff(_, _, _)
\* the first index at which a and b differ (one past the shorter when it is a prefix)
FirstDiff(a, b, i) ==
    IF i > Len(a) \/ i > Len(b) THEN i
    ELSE IF Char(a, i) # Char(b, i) THEN i
    ELSE FirstDiff(a, b, i + 1)

\* Python's a > b on str: code point lexicographic order
StrGreater(a, b) ==
    LET i == FirstDiff(a, b, 1) IN
    IF i > Len(a) THEN FALSE
    ELSE IF i > Len(b) THEN TRUE
    ELSE CharCode[Char(a, i)] > CharCode[Char(b, i)]

Min(S) == CHOOSE x \in S : \A y \in S : x <= y
Max(S) == CHOOSE x \in S : \A y \in S : x >= y

-----------------------------------------------------------------------------
(* extract_entry_number: the regular expressions *)

\* \d, \s and \w on ASCII text
Digits == {"0", "1", "2", "3", "4", "5", "6", "7", "8", "9"}
Whitespace == {" ", "\t", "\n", "\r", "\f"}
WordChars == {c \in AsciiChars : LowerOf[c] # c \/ LowerOf[c] \in
                {"a","b","c","d","e","f","g","h","i","j","k","l","m","n","o","p","q",
                 "r","s","t","u","v","w","x","y","z"}} \cup Digits \cup {"_"}

\* the upper limit of \d{1,6}
MaxDigits == 6

\* patterns, in the order of the list: lit is the literal matched ignoring case,
\* hash says that \s*# follows it, wb that the pattern is wrapped in \b ... \b
patterns == <<
    [lit |-> "/entry", hash |-> FALSE, wb |-> FALSE],   \* /entry\s*(\d{1,6})
    [lit |-> "entry",  hash |-> TRUE,  wb |-> FALSE],   \* Entry\s*#\s*(\d{1,6})
    [lit |-> "#entry", hash |-> FALSE, wb |-> FALSE],   \* #entry\s*(\d{1,6})
    [lit |-> "entry",  hash |-> FALSE, wb |-> TRUE] >>  \* \bentry\s*(\d{1,6})\b

RECURSIVE SkipSpace(_, _)
\* \s*: the index of the first character at or after i that is not whitespace
SkipSpace(s, i) ==
    IF i <= Len(s) /\ Char(s, i) \in Whitespace THEN SkipSpace(s, i + 1) ELSE i

RECURSIVE DigitRun(_, _)
\* how many consecutive digits start at index i
DigitRun(s, i) ==
    IF i <= Len(s) /\ Char(s, i) \in Digits THEN 1 + DigitRun(s, i + 1) ELSE 0

\* \b between index i and i + 1 (0 is the start of the text, Len(s) its end)
WordBoundary(s, i) ==
    LET before == i >= 1 /\ Char(s, i) \in WordChars
        after  == i + 1 <= Len(s) /\ Char(s, i + 1) \in WordChars
    IN before # after

\* m if it is a match, else the result of what is tried next
OrElse(m, next) == IF ~m.isNone THEN m ELSE next

\* (\d{1,6}) at index j, where run digits stand, and the closing \b of a wb pattern
GroupOfRun(p, s, j, run) ==
    LET \* the lengths \d{1,6} can take, given what has to follow it
        Ks == {k \in 1..(IF run < MaxDigits THEN run ELSE MaxDigits) :
                    ~p.wb \/ WordBoundary(s, j + k - 1)}
    IN IF Ks = {} THEN None ELSE Str(SubSeq(s, j, j + Max(Ks) - 1))     \* greedy

Group(p, s, j) == GroupOfRun(p, s, j, DigitRun(s, j))

\* what follows the literal and \s*, at index j: # and \s* for a hash pattern, the group
AfterLiteral(p, s, j) ==
    IF ~p.hash THEN Group(p, s, j)
    ELSE IF j <= Len(s) /\ Char(s, j) = "#" THEN Group(p, s, SkipSpace(s, j + 1))
    ELSE None

\* the literal of p stands at index i of s, ignoring case, after \b for a wb pattern
LiteralAt(p, s, i) ==
    /\ i + Len(p.lit) - 1 <= Len(s)
    /\ \A k \in 1..Len(p.lit) : LowerOf[Char(s, i + k - 1)] = Char(p.lit, k)
    /\ ~p.wb \/ WordBoundary(s, i - 1)

\* the match of pattern p that starts at index i of s: group(1), or None
MatchAt(p, s, i) ==
    IF LiteralAt(p, s, i) THEN AfterLiteral(p, s, SkipSpace(s, i + Len(p.lit))) ELSE None

RECURSIVE SearchFrom(_, _, _)
\* the leftmost match of p in s that starts at index i or later
SearchFrom(p, s, i) ==
    IF i > Len(s) THEN None ELSE OrElse(MatchAt(p, s, i), SearchFrom(p, s, i + 1))

\* re.search(pat, text, flags=re.IGNORECASE): group(1) of the leftmost match, or None
Search(p, s) == SearchFrom(p, s, 1)

\* candidates: the id text, the title text, then every link href, when non-empty
Candidates(e) ==
    LET RECURSIVE Hrefs(_)
        Hrefs(ls) == IF ls = <<>> THEN <<>>
                     ELSE (IF Truthy(Head(ls).href) THEN <<Head(ls).href.str>> ELSE <<>>)
                          \o Hrefs(Tail(ls))
    IN (IF Truthy(e.id) THEN <<e.id.str>> ELSE <<>>)
       \o (IF Truthy(e.title) THEN <<e.title.str>> ELSE <<>>)
       \o Hrefs(e.links)

RECURSIVE TryPatterns(_, _)
\* for pat in patterns: the first pattern, from index pi on, that matches text
TryPatterns(text, pi) ==
    IF pi > Len(patterns) THEN None
    ELSE OrElse(Search(patterns[pi], text), TryPatterns(text, pi + 1))

RECURSIVE FirstCandidateWith(_, _, _)
FirstCandidateWith(pat, cands, ci) ==
    IF ci > Len(cands) THEN None
    ELSE OrElse(Search(pat, cands[ci]), FirstCandidateWith(pat, cands, ci + 1))
RECURSIVE ByPattern(_, _)
ByPattern(cands, pi) ==
    IF pi > Len(patterns) THEN None
    ELSE OrElse(FirstCandidateWith(patterns[pi], cands, 1), ByPattern(cands, pi + 1))
\* the loops exchanged: for pat in patterns: for text in candidates
TryCandidates_PatternMajor(cands, ci) == ByPattern(cands, 1)

RECURSIVE TryCandidates(_, _)
\* for text in candidates: the first candidate, from index ci on, with a match
TryCandidates(cands, ci) ==
    IF ci > Len(cands) THEN None
    ELSE OrElse(TryPatterns(cands[ci], 1), TryCandidates(cands, ci + 1))

extract_entry_number(e) == TryCandidates(Candidates(e), 1)

-----------------------------------------------------------------------------
(* Settings *)

DOCKET_ID == 68024915
DOCKET_SLUG == "alter-v-openai-inc"

RECURSIVE IntToStr(_)
\* the decimal text an f-string gives a non-negative int
IntToStr(n) ==
    IF n < 10 THEN Char("0123456789", n + 1)
    ELSE IntToStr(n \div 10) \o Char("0123456789", (n % 10) + 1)

DOCKET_HTML_URL ==
    "https://www.courtlistener.com/docket/" \o IntToStr(DOCKET_ID) \o "/" \o DOCKET_SLUG \o "/"

-----------------------------------------------------------------------------
(* The element tree.                                                       *)
(*   child element of an entry : [exists, text]                            *)
(*   link                      : [href, rel, type], each an Optional[str]  *)
(*   entry                     : [id, title, updated, published, links];   *)
(*                               id and title are the element's text, None *)
(*                               when the element is missing or empty      *)
(*   root                      : [head, entries, tail]: the feed's         *)
(*                               children before, at and after its entries *)
(*   node (of head and tail)   : [tag, text, href, rel, type]              *)

NoEl == [exists |-> FALSE, text |-> None]
El(t) == [exists |-> TRUE, text |-> t]
Link(h, r, t) == [href |-> h, rel |-> r, type |-> t]
TitleNode == [tag |-> "title", text |-> Str("Docket"), href |-> None, rel |-> None, type |-> None]
UpdatedNode(t) == [tag |-> "updated", text |-> t, href |-> None, rel |-> None, type |-> None]
LinkNode(h, r, t) == [tag |-> "link", text |-> None, href |-> h, rel |-> r, type |-> t]
EmptyRoot == [head |-> <<>>, entries |-> <<>>, tail |-> <<>>]

\* ET.fromstring / ET.tostring: the text of a document and the tree it holds.
\* A text that is not well-formed XML has no tree (ParseError).
Xml(root) == [wellformed |-> TRUE, declaration |-> FALSE, root |-> root]
Malformed == [wellformed |-> FALSE, declaration |-> FALSE, root |-> EmptyRoot]
fromstring(x) == x.root
tostring(root) == [wellformed |-> TRUE, declaration |-> TRUE, root |-> root]

\* sub in s (str containment, case-sensitive)
Contains(s, sub) ==
    \E i \in 1..(Len(s) - Len(sub) + 1) : SubSeq(s, i, i + Len(sub) - 1) = sub

\* root.find("atom:<tag>") among nodes: the index of the first, 0 when there is none
FirstTag(nodes, tag) ==
    LET I == {i \in 1..Len(nodes) : nodes[i].tag = tag} IN IF I = {} THEN 0 ELSE Min(I)

InsertAt(seq, i, x) == SubSeq(seq, 1, i) \o <<x>> \o SubSeq(seq, i + 1, Len(seq))

-----------------------------------------------------------------------------
(* normalise_feed *)

\* Add atom:link rel="self"
InsertSelfLink(root, self_url) ==
    LET self_link == LinkNode(self_url, Str("self"), Str("application/atom+xml"))
        h == FirstTag(root.head, "title")
        t == FirstTag(root.tail, "title")
    IN IF ~Truthy(self_url) THEN root
       ELSE IF h > 0 THEN [root EXCEPT !.head = InsertAt(root.head, h, self_link)]
       ELSE IF t > 0 THEN [root EXCEPT !.tail = InsertAt(root.tail, t, self_link)]
       ELSE [root EXCEPT !.head = <<self_link>> \o root.head]

\* Ensure <updated>
EnsureUpdated(e, now) ==
    IF ~e.updated.exists
    THEN [e EXCEPT !.updated =
            El(IF e.published.exists /\ Truthy(e.published.text)
               THEN e.published.text ELSE Str(now))]
    ELSE e

\* newest_updated after the entry whose updated text is t
TrackNewest(newest, t) ==
    IF newest.isNone \/ (Truthy(t) /\ StrGreater(t.str, newest.str)) THEN t ELSE newest

\* Remove invalid type="None" from enclosure links
StripNoneType(l) ==
    IF l.rel = Str("enclosure") /\ l.type = Str("None") THEN [l EXCEPT !.type = None] ELSE l

preferred_href_NoFragment(no) == DOCKET_HTML_URL
preferred_href(no) ==
    IF no.isNone THEN DOCKET_HTML_URL ELSE DOCKET_HTML_URL \o "#entry" \o no.str

\* link.get("href", "")
HrefOrEmpty(l) == IF l.href.isNone THEN "" ELSE l.href.str

KeepsExisting_NoSelf(l) ==
    Contains(HrefOrEmpty(l), "#entry") /\ l.rel \in {None, Str("alternate")}
KeepsExisting(l) ==
    Contains(HrefOrEmpty(l), "#entry") /\ l.rel \in {None, Str("alternate"), Str("self")}

keep_existing(links) == \E i \in 1..Len(links) : KeepsExisting(links[i])

IsAlternate(l) == l.rel \in {None, Str("alternate")}

\* the index of the first link with rel in (None, "alternate"), 0 when there is none
FirstAlternate(links) ==
    LET I == {i \in 1..Len(links) : IsAlternate(links[i])} IN IF I = {} THEN 0 ELSE Min(I)

\* Update or add the alternate link to preferred_href
SetAlternate(links, href) ==
    LET a == FirstAlternate(links)
        ls == IF a = 0 THEN Append(links, Link(None, None, None)) ELSE links
        k == IF a = 0 THEN Len(ls) ELSE a
    IN [ls EXCEPT ![k] = [@ EXCEPT !.href = Str(href), !.rel = Str("alternate")]]

\* If no existing non-enclosure link already has a #entryNN, set the alternate link
RewriteLinks(e) ==
    IF keep_existing(e.links) THEN e
    ELSE [e EXCEPT !.links = SetAlternate(e.links, preferred_href(extract_entry_number(e)))]

StripNoneTypes(e) ==
    [e EXCEPT !.links = [i \in 1..Len(e.links) |-> StripNoneType(e.links[i])]]

\* the body of the loop over the entries, without the tracking of newest_updated
NormaliseEntry(e, now) == RewriteLinks(StripNoneTypes(EnsureUpdated(e, now)))

\* the entry calls now_utc_iso()
NeedsNow(e) == ~e.updated.exists /\ ~(e.published.exists /\ Truthy(e.published.text))

\* how many calls of now_utc_iso() the first n entries make
NowCalls(entries, n) == Cardinality({i \in 1..n : NeedsNow(entries[i])})

\* the loop over the entries; nows[k] is what the k-th call of now_utc_iso() returns
NormaliseEntries(root, nows) ==
    [root EXCEPT !.entries =
        [i \in 1..Len(root.entries) |->
            NormaliseEntry(root.entries[i], nows[NowCalls(root.entries, i - 1) + 1])]]

RECURSIVE NewestAfter(_, _, _)
\* newest_updated after the first n (normalised) entries
NewestAfter(entries, n, init) ==
    IF n = 0 THEN init
    ELSE TrackNewest(NewestAfter(entries, n - 1, init), entries[n].updated.text)

\* Feed-level <updated>
SetFeedUpdated(root, t) ==
    LET h == FirstTag(root.head, "updated")
        u == FirstTag(root.tail, "updated")
    IN IF h > 0 THEN [root EXCEPT !.head[h].text = t]
       ELSE IF u > 0 THEN [root EXCEPT !.tail[u].text = t]
       ELSE [root EXCEPT !.tail = Append(root.tail, UpdatedNode(t))]

\* newest_updated or now_utc_iso()
FeedUpdatedText(newest, now) == IF Truthy(newest) THEN newest ELSE Str(now)

\* the end of normalise_feed, on the tree whose entries are normalised
FinishFeed(root, now) ==
    SetFeedUpdated(root,
        FeedUpdatedText(NewestAfter(root.entries, Len(root.entries), None), now))

\* normalise_feed on a parsed tree; nows[k] is what the k-th call of now_utc_iso()
\* returns, the last of them being the one for the feed-level updated
NormaliseTree(root, self_url, nows) ==
    FinishFeed(NormaliseEntries(InsertSelfLink(root, self_url), nows),
               nows[NowCalls(root.entries, Len(root.entries)) + 1])

\* the most calls of now_utc_iso() normalise_feed makes on this text
MaxNowCalls(xml) == NowCalls(fromstring(xml).entries, Len(fromstring(xml).entries)) + 1

normalise_feed(xml, self_url, nows) == tostring(NormaliseTree(fromstring(xml), self_url, nows))

-----------------------------------------------------------------------------
(* Bounds and the inputs drawn within them *)

\* the largest max_retries tried
MaxRetries == 6
\* the most entries a feed holds
MaxEntries == 2
\* the most links an entry holds
MaxLinks == 2

\* sequences over S of length at most n
RECURSIVE SeqsUpTo(_, _)
SeqsUpTo(S, n) ==
    IF n = 0 THEN {<<>>}
    ELSE LET shorter == SeqsUpTo(S, n - 1)
         IN shorter \cup {Append(q, x) : q \in {r \in shorter : Len(r) = n - 1}, x \in S}

\* what os.getenv("FEED_SELF_URL") can give
SelfUrls == {None, Str("https://michaellee50.github.io/CourtListener/feed.xml")}

\* readings of the clock (now_utc_iso), in increasing order
ClockTexts == <<"2026-11-02T14:00:00Z", "2026-11-02T14:00:01Z">>
\* the readings of n successive calls: the clock never runs backwards
ClockSeqs(n) ==
    {[i \in 1..n |-> IF i <= k THEN ClockTexts[1] ELSE ClockTexts[2]] : k \in 0..n}

\* texts of the updated and published elements found in a feed
UpdatedEls == {NoEl, El(None), El(Str("2024-05-01T10:00:00Z")), El(Str("2024-05-02T09:30:00Z"))}
PublishedEls == {NoEl, El(None), El(Str("2024-06-01T00:00:00Z"))}

\* entries without id, title or links: with an updated element, or without one and
\* with any published
PlainEntries ==
    {[id |-> None, title |-> None, updated |-> u, published |-> NoEl, links |-> <<>>] :
        u \in UpdatedEls \ {NoEl}}
    \cup {[id |-> None, title |-> None, updated |-> NoEl, published |-> q, links |-> <<>>] :
        q \in PublishedEls}

\* links found in an entry
NoMatchHref == Str("https://cl/doc.pdf")
FragmentHref == Str("https://cl/d/#entry5")
InputLinks ==
    {Link(h, r, None) : h \in {NoMatchHref, FragmentHref},
                        r \in {None, Str("alternate"), Str("self"), Str("enclosure")}}
    \cup {Link(Str("https://cl/d/#Entry9"), Str("alternate"), None),
          Link(NoMatchHref, Str("enclosure"), Str("None"))}

\* entries with an updated element and any id, title and links
LinkEntries ==
    {[id |-> i, title |-> t, updated |-> El(Str("2024-05-01T10:00:00Z")),
      published |-> NoEl, links |-> ls] :
        i \in {None, Str("cl/entry7")}, t \in {None},
        ls \in SeqsUpTo(InputLinks, MaxLinks)}

\* an entry that lacks updated and has published
MissingUpdated ==
    [id |-> None, title |-> None, updated |-> NoEl,
     published |-> El(Str("2024-06-01T00:00:00Z")), links |-> <<>>]

\* the feed's children before its entries
Heads ==
    {<<>>,
     <<TitleNode, UpdatedNode(Str("2024-01-01T00:00:00Z"))>>,
     <<TitleNode,
       LinkNode(Str("https://www.courtlistener.com/docket/68024915/feed/"), Str("self"),
                Str("application/atom+xml")),
       UpdatedNode(None)>>}

\* the feeds normalise_feed is applied to
EntryLists ==
    SeqsUpTo(PlainEntries, MaxEntries)
    \cup {<<e>> : e \in LinkEntries}
    \cup {<<MissingUpdated, e>> : e \in {x \in LinkEntries : Len(x.links) < MaxLinks}}
Roots == {[head |-> h, entries |-> es, tail |-> <<>>] : h \in Heads, es \in EntryLists}

\* texts of ids, titles and hrefs given to extract_entry_number
ExtractIds ==
    {None, Str("cl/docket/entry7"), Str("entry 5"), Str("docket-entry12"), Str("reentry5"),
     Str("entry1234567"), Str("/entry1234567"), Str("ENTRY#3"), Str("entry5x"),
     Str("#entry 9"), Str("case 42"), Str("entry 5 /entry7")}
ExtractTitles ==
    {None, Str("Entry #12"), Str("Entry # 8: Motion"), Str("entry 5 filed"), Str("Order"),
     Str("Docket Entry 4"), Str("#entry4 Entry #3"), Str("Entry\t#6"), Str("entry_7")}
ExtractHrefs ==
    {None, Str(""), Str("https://cl/d/#entry5"), Str("https://cl/d/entry7/"),
     Str("https://cl/x.pdf"), Str("https://cl/d/?entry=5"), Str("https://cl/d/#ENTRY 21")}
ExtractEntries ==
    {[id |-> i, title |-> t, updated |-> NoEl, published |-> NoEl, links |-> ls] :
        i \in ExtractIds, t \in ExtractTitles,
        ls \in SeqsUpTo({Link(h, None, None) : h \in ExtractHrefs}, MaxLinks)}

-----------------------------------------------------------------------------
(* fetch_source *)

BackoffStart == 3
BackoffCap == 30
Transient == {429, 500, 502, 503, 504}

\* the documents a 200 response can carry
Bodies ==
    {Malformed}
    \cup {Xml([head |-> h, entries |-> es, tail |-> <<>>]) :
            h \in Heads,
            es \in {<<>>,
                    <<MissingUpdated,
                      [id |-> Str("cl/entry7"), title |-> None,
                       updated |-> El(Str("2024-05-01T10:00:00Z")), published |-> NoEl,
                       links |-> <<Link(FragmentHref, Str("alternate"), None)>>]>>}}

\* what one requests.get can end in: a response (status_code, text), or an exception
Response(c, t) == [get |-> "response", status |-> c, text |-> t]
Outcomes == {Response(200, b) : b \in Bodies}
                \cup {Response(c, Malformed) : c \in {404, 429, 503}}
                \cup {[get |-> "raised", status |-> 0, text |-> Malformed]}

\* r.raise_for_status() raises
RaisesForStatus(o) == o.status >= 400 /\ o.status < 600

\* the try block raises: requests.get did, the status is transient, or raise_for_status did
Fails(o) == o.get = "raised" \/ o.status \in Transient \/ RaisesForStatus(o)

\* str(e) of the exception the try block raised
Cause(o) ==
    IF o.get = "raised" THEN "ConnectionError"
    ELSE IF o.status \in Transient THEN "Transient HTTP " \o IntToStr(o.status)
    ELSE IntToStr(o.status) \o " Client Error"

NextBackoff_NoCap(b) == b * 2
\* backoff = min(backoff * 2, 30)
NextBackoff(b) == IF b * 2 < BackoffCap THEN b * 2 ELSE BackoffCap

\* the try block returns r.text
FetchReturn ==
    /\ pc = "fetch"
    /\ \E o \in Outcomes :
        /\ ~Fails(o)
        /\ resps' = Append(resps, o)
        /\ xml_text' = o.text
        /\ pc' = "normalise"
    /\ UNCHANGED <<max_retries, attempt, backoff, sleeps, out_xml, file, exit_code, stderr,
                   FEED_SELF_URL, doc0, doc1, doc2, runs, entry, entry_no, called>>

\* except Exception, not the last attempt: sleep, double the backoff, go round again
FetchRetry ==
    /\ pc = "fetch"
    /\ attempt # max_retries
    /\ \E o \in Outcomes :
        /\ Fails(o)
        /\ resps' = Append(resps, o)
    /\ sleeps' = Append(sleeps, backoff)
    /\ backoff' = NextBackoff(backoff)
    /\ attempt' = attempt + 1
    /\ UNCHANGED <<pc, max_retries, xml_text, out_xml, file, exit_code, stderr,
                   FEED_SELF_URL, doc0, doc1, doc2, runs, entry, entry_no, called>>

\* except Exception, the last attempt: re-raise, which main reports
FetchRaise ==
    /\ pc = "fetch"
    /\ attempt = max_retries
    /\ \E o \in Outcomes :
        /\ Fails(o)
        /\ resps' = Append(resps, o)
        /\ stderr' = "ERROR: " \o Cause(o)
    /\ pc' = "exit"
    /\ exit_code' = 1
    /\ UNCHANGED <<max_retries, attempt, backoff, sleeps, xml_text, out_xml, file,
                   FEED_SELF_URL, doc0, doc1, doc2, runs, entry, entry_no, called>>

-----------------------------------------------------------------------------
(* main, after fetch_source *)

\* feed.xml: absent, the file a previous run left, truncated by open(.., "wb"),
\* partly written, or holding all of out_xml
NoBytes == tostring(EmptyRoot)
File(st, data) == [state |-> st, data |-> data]

\* normalise_feed returns
NormaliseOk ==
    /\ pc = "normalise"
    /\ xml_text.wellformed
    /\ \E nows \in ClockSeqs(MaxNowCalls(xml_text)) :
        out_xml' = normalise_feed(xml_text, FEED_SELF_URL, nows)
    /\ pc' = "open"
    /\ UNCHANGED <<max_retries, attempt, backoff, sleeps, resps, xml_text, file, exit_code,
                   stderr, FEED_SELF_URL, doc0, doc1, doc2, runs, entry, entry_no, called>>

\* ET.fromstring raises ParseError
ParseFails ==
    /\ pc = "normalise"
    /\ ~xml_text.wellformed
    /\ pc' = "exit"
    /\ exit_code' = 1
    /\ stderr' = "ERROR: ParseError"
    /\ UNCHANGED <<max_retries, attempt, backoff, sleeps, resps, xml_text, out_xml, file,
                   FEED_SELF_URL, doc0, doc1, doc2, runs, entry, entry_no, called>>

\* open("feed.xml", "wb") creates or truncates the file
OpenOk ==
    /\ pc = "open"
    /\ file' = File("truncated", NoBytes)
    /\ pc' = "write"
    /\ UNCHANGED <<max_retries, attempt, backoff, sleeps, resps, xml_text, out_xml,
                   exit_code, stderr, FEED_SELF_URL, doc0, doc1, doc2, runs, entry,
                   entry_no, called>>

\* open raises OSError: the file is as it was
OpenFails ==
    /\ pc = "open"
    /\ pc' = "exit"
    /\ exit_code' = 1
    /\ stderr' = "ERROR: OSError"
    /\ UNCHANGED <<max_retries, attempt, backoff, sleeps, resps, xml_text, out_xml, file,
                   FEED_SELF_URL, doc0, doc1, doc2, runs, entry, entry_no, called>>

\* f.write(out_xml) and the close succeed; main returns
WriteOk ==
    /\ pc = "write"
    /\ file' = File("complete", out_xml)
    /\ pc' = "exit"
    /\ exit_code' = 0
    /\ UNCHANGED <<max_retries, attempt, backoff, sleeps, resps, xml_text, out_xml, stderr,
                   FEED_SELF_URL, doc0, doc1, doc2, runs, entry, entry_no, called>>

\* f.write or the close raises OSError: nothing or a part of out_xml is on disk
WriteFails ==
    /\ pc = "write"
    /\ \E st \in {"truncated", "partial"} : file' = File(st, NoBytes)
    /\ pc' = "exit"
    /\ exit_code' = 1
    /\ stderr' = "ERROR: OSError"
    /\ UNCHANGED <<max_retries, attempt, backoff, sleeps, resps, xml_text, out_xml,
                   FEED_SELF_URL, doc0, doc1, doc2, runs, entry, entry_no, called>>

Init ==
    /\ pc = "fetch"
    /\ max_retries \in 1..MaxRetries
    /\ attempt = 1
    /\ backoff = BackoffStart
    /\ sleeps = <<>>
    /\ resps = <<>>
    /\ xml_text = Malformed
    /\ out_xml = NoBytes
    /\ file \in {File("absent", NoBytes), File("previous", NoBytes)}
    /\ exit_code = -1
    /\ stderr = ""
    /\ FEED_SELF_URL \in SelfUrls
    /\ doc0 = Malformed /\ doc1 = NoBytes /\ doc2 = NoBytes /\ runs = 0
    /\ entry = MissingUpdated /\ entry_no = None /\ called = FALSE

Next ==
    \/ FetchReturn
    \/ FetchRetry
    \/ FetchRaise
    \/ NormaliseOk
    \/ ParseFails
    \/ OpenOk
    \/ OpenFails
    \/ WriteOk
    \/ WriteFails

Spec == Init /\ [][Next]_vars

-----------------------------------------------------------------------------
(* normalise_feed applied to a feed, and again to its own output *)

NormaliseOnce ==
    /\ runs = 0
    /\ \E nows \in ClockSeqs(MaxNowCalls(doc0)) :
        doc1' = normalise_feed(doc0, FEED_SELF_URL, nows)
    /\ runs' = 1
    /\ UNCHANGED <<pc, max_retries, attempt, backoff, sleeps, resps, xml_text, out_xml, file,
                   exit_code, stderr, FEED_SELF_URL, doc0, doc2, entry, entry_no, called>>

NormaliseTwice ==
    /\ runs = 1
    /\ \E nows \in ClockSeqs(MaxNowCalls(doc1)) :
        doc2' = normalise_feed(doc1, FEED_SELF_URL, nows)
    /\ runs' = 2
    /\ UNCHANGED <<pc, max_retries, attempt, backoff, sleeps, resps, xml_text, out_xml, file,
                   exit_code, stderr, FEED_SELF_URL, doc0, doc1, entry, entry_no, called>>

InitNorm ==
    /\ pc = "normalise"
    /\ max_retries = 1 /\ attempt = 1 /\ backoff = BackoffStart
    /\ sleeps = <<>> /\ resps = <<>>
    /\ xml_text = Malformed /\ out_xml = NoBytes
    /\ file = File("absent", NoBytes)
    /\ exit_code = -1 /\ stderr = ""
    /\ FEED_SELF_URL \in SelfUrls
    /\ doc0 \in {Xml(r) : r \in Roots}
    /\ doc1 = NoBytes /\ doc2 = NoBytes /\ runs = 0
    /\ entry = MissingUpdated /\ entry_no = None /\ called = FALSE

NextNorm ==
    \/ NormaliseOnce
    \/ NormaliseTwice

SpecNorm == InitNorm /\ [][NextNorm]_vars

-----------------------------------------------------------------------------
(* extract_entry_number applied to an entry *)

Extract ==
    /\ ~called
    /\ entry_no' = extract_entry_number(entry)
    /\ called' = TRUE
    /\ UNCHANGED <<pc, max_retries, attempt, backoff, sleeps, resps, xml_text, out_xml, file,
                   exit_code, stderr, FEED_SELF_URL, doc0, doc1, doc2, runs, entry>>

InitExtract ==
    /\ pc = "normalise"
    /\ max_retries = 1 /\ attempt = 1 /\ backoff = BackoffStart
    /\ sleeps = <<>> /\ resps = <<>>
    /\ xml_text = Malformed /\ out_xml = NoBytes
    /\ file = File("absent", NoBytes)
    /\ exit_code = -1 /\ stderr = ""
    /\ FEED_SELF_URL = None
    /\ doc0 = Malformed /\ doc1 = NoBytes /\ doc2 = NoBytes /\ runs = 0
    /\ entry \in ExtractEntries /\ entry_no = None /\ called = FALSE

NextExtract == Extract

SpecExtract == InitExtract /\ [][NextExtract]_vars

-----------------------------------------------------------------------------
(* Properties of normalise_feed (SpecNorm) *)

In0 == fromstring(doc0)
Out1 == fromstring(doc1)
Out2 == fromstring(doc2)
Entries == 1..Len(In0.entries)

\* a text that may be None, as a str ("" for None)
TextOf(t) == IF t.isNone THEN "" ELSE t.str

\* some link has "#entry" in its href and rel "alternate", "self" or unset
HasFragmentLink(links) ==
    \E k \in 1..Len(links) :
        /\ ~links[k].href.isNone
        /\ Contains(links[k].href.str, "#entry")
        /\ links[k].rel \in {None, Str("alternate"), Str("self")}

\* the index of the first link with rel "alternate" or unset, 0 when there is none
FirstAlt(links) ==
    LET I == {k \in 1..Len(links) : links[k].rel \in {None, Str("alternate")}}
    IN IF I = {} THEN 0 ELSE Min(I)

\* the docket page, with #entry<N> when extract_entry_number finds N in entry e
DocketHref(e) ==
    LET n == extract_entry_number(e)
    IN IF n.isNone THEN DOCKET_HTML_URL ELSE DOCKET_HTML_URL \o "#entry" \o n.str

\* the primary link of the normalised entry points at the docket page
PrimaryAtDocket(i) ==
    LET out == Out1.entries[i].links
        a == FirstAlt(out)
    IN a > 0 => out[a].href = Str(DocketHref(In0.entries[i]))

\* C1 as stated: after normalise_feed the primary non-enclosure link of every entry
\* is DOCKET_HTML_URL#entry<N>, or the bare DOCKET_HTML_URL when no N is found.
C1_EveryPrimaryAtDocket == runs >= 1 => \A i \in Entries : PrimaryAtDocket(i)

\* C1 amended: after normalise_feed, every entry none of whose links has "#entry" in
\* its href with rel "alternate", "self" or unset has a primary link, and its href is
\* DOCKET_HTML_URL#entry<N>, or the bare DOCKET_HTML_URL when no N is found.
C1_PrimaryAtDocketUnlessKept ==
    runs >= 1 =>
        \A i \in Entries :
            ~HasFragmentLink(In0.entries[i].links) =>
                /\ FirstAlt(Out1.entries[i].links) > 0
                /\ PrimaryAtDocket(i)

\* an entry with an alternate link and a number, no link kept, has been normalised
C1_Witness ==
    /\ runs >= 1
    /\ \E i \in Entries :
        /\ ~HasFragmentLink(In0.entries[i].links)
        /\ FirstAlt(In0.entries[i].links) > 0
        /\ ~extract_entry_number(In0.entries[i]).isNone
        /\ Out1.entries[i].links # In0.entries[i].links

\* the text of the feed-level updated element
FeedUpdated(root) ==
    LET c == root.head \o root.tail
        I == {k \in 1..Len(c) : c[k].tag = "updated"}
    IN c[Min(I)].text

ClockText(t) == \E k \in 1..Len(ClockTexts) : t = Str(ClockTexts[k])

\* C2: after normalise_feed the feed-level updated text is the lexical maximum of the
\* entries' updated texts as they stand after normalisation; the current UTC time
\* when the feed has no entries.
C2_FeedUpdatedIsMaximum ==
    runs >= 1 =>
        IF Out1.entries = <<>> THEN ClockText(FeedUpdated(Out1))
        ELSE /\ \E i \in Entries : FeedUpdated(Out1) = Out1.entries[i].updated.text
             /\ \A i \in Entries :
                    ~StrGreater(TextOf(Out1.entries[i].updated.text),
                                TextOf(FeedUpdated(Out1)))

\* C3: after normalise_feed every entry has an updated element with non-empty text;
\* an entry that had none has the text of its published element when that has one,
\* the current UTC time otherwise.
C3_EveryEntryUpdated ==
    runs >= 1 =>
        \A i \in Entries :
            LET in == In0.entries[i]
                out == Out1.entries[i]
            IN /\ out.updated.exists
               /\ Truthy(out.updated.text)
               /\ ~in.updated.exists =>
                    IF in.published.exists /\ Truthy(in.published.text)
                    THEN out.updated.text = in.published.text
                    ELSE ClockText(out.updated.text)

\* how many feed-level links have rel="self"
SelfLinks(root) ==
    LET c == root.head \o root.tail
    IN Cardinality({k \in 1..Len(c) : c[k].tag = "link" /\ c[k].rel = Str("self")})

\* C4: with FEED_SELF_URL configured, the feed normalise_feed produces carries
\* exactly one feed-level link with rel="self".
C4_ExactlyOneSelfLink == (runs >= 1 /\ Truthy(FEED_SELF_URL)) => SelfLinks(Out1) = 1

\* the hrefs of the links with rel "alternate" or unset, in order
AltHrefs(e) ==
    LET RECURSIVE Of(_)
        Of(ls) == IF ls = <<>> THEN <<>>
                  ELSE (IF Head(ls).rel \in {None, Str("alternate")}
                        THEN <<Head(ls).href>> ELSE <<>>) \o Of(Tail(ls))
    IN Of(e.links)

\* C5: normalise_feed applied to its own output leaves every entry's alternate-link
\* hrefs and links as the first application made them, and the number of
\* feed-level self links as the first application made it.
C5_SecondRunChangesNoLink ==
    runs = 2 =>
        /\ SelfLinks(Out2) = SelfLinks(Out1)
        /\ \A i \in Entries :
            /\ AltHrefs(Out2.entries[i]) = AltHrefs(Out1.entries[i])
            /\ Len(Out2.entries[i].links) = Len(Out1.entries[i].links)

SameHrefRel(a, b) == a.href = b.href /\ a.rel = b.rel

\* C9: for an entry that has a link with "#entry" in its href and rel "alternate",
\* "self" or unset, normalise_feed leaves the href and rel of every link as they were
\* and adds no link; for any other entry it sets one link, the first with rel
\* "alternate" or unset or else a newly appended one, to the docket page with rel
\* "alternate", and leaves the href and rel of every other link as they were.
C9_KeepExistingGuard ==
    runs >= 1 =>
        \A i \in Entries :
            LET in == In0.entries[i].links
                out == Out1.entries[i].links
                a == FirstAlt(in)
                set == IF a = 0 THEN Len(in) + 1 ELSE a
            IN IF HasFragmentLink(in)
               THEN /\ Len(out) = Len(in)
                    /\ \A k \in 1..Len(in) : SameHrefRel(in[k], out[k])
               ELSE /\ Len(out) = (IF a = 0 THEN Len(in) + 1 ELSE Len(in))
                    /\ \A k \in 1..Len(in) : k # set => SameHrefRel(in[k], out[k])
                    /\ out[set].rel = Str("alternate")
                    /\ out[set].href = Str(DocketHref(In0.entries[i]))

\* an entry kept for a rel="self" link with "#entry", beside an alternate link without
C9_Witness ==
    /\ runs >= 1
    /\ \E i \in Entries :
        LET in == In0.entries[i].links
        IN /\ Len(in) = 2
           /\ in[1].rel = Str("self") /\ Contains(TextOf(in[1].href), "#entry")
           /\ in[2].rel = Str("alternate") /\ ~Contains(TextOf(in[2].href), "#entry")
           /\ Out1.entries[i].links = in

-----------------------------------------------------------------------------
(* Properties of extract_entry_number (SpecExtract) *)

Cands == Candidates(entry)
Matching(text) == {k \in 1..Len(patterns) : ~Search(patterns[k], text).isNone}
\* the patterns other than the bare word-boundary form
Structural == 1..(Len(patterns) - 1)

\* C8 as stated: a structural match (/entryNN, Entry #NN, #entryNN) in any candidate
\* wins over a bare entryNN match, also when the bare match is in an earlier
\* candidate; no result exactly when no pattern matches any candidate.
C8_StructuralWinsAnywhere ==
    called =>
        /\ entry_no.isNone <=> \A c \in 1..Len(Cands) : Matching(Cands[c]) = {}
        /\ (\E c \in 1..Len(Cands) : Matching(Cands[c]) \cap Structural # {}) =>
                \E c \in 1..Len(Cands) :
                    \E k \in Matching(Cands[c]) \cap Structural :
                        entry_no = Search(patterns[k], Cands[c])

\* C8 amended: the result is the number matched in the first candidate (id, title,
\* hrefs, in that order) that any pattern matches, by the highest-priority pattern
\* that matches this candidate; no result exactly when no pattern matches any candidate.
C8_FirstCandidateThenPriority ==
    called =>
        LET M == {c \in 1..Len(Cands) : Matching(Cands[c]) # {}}
        IN IF M = {} THEN entry_no.isNone
           ELSE entry_no = Search(patterns[Min(Matching(Cands[Min(M)]))], Cands[Min(M)])

\* a bare match in the id, a structural match in the title: the id's number is returned
C8_Witness ==
    /\ called
    /\ Len(Cands) >= 2
    /\ Matching(Cands[1]) = {Len(patterns)}
    /\ Matching(Cands[2]) \cap Structural # {}
    /\ entry_no = Search(patterns[Len(patterns)], Cands[1])

-----------------------------------------------------------------------------
(* Properties of fetch_source and main (Spec) *)

Last(q) == q[Len(q)]
FetchReturned == resps # <<>> /\ ~Fails(Last(resps))
FetchRaised == resps # <<>> /\ Fails(Last(resps)) /\ pc = "exit"

\* C6: a response with a non-2xx status that is not transient (404) ends fetch_source
\* with that cause: no GET and no sleep follows it.
C6_OnlyTransientRetried ==
    \A k \in 1..Len(resps) :
        (resps[k].get = "response" /\ RaisesForStatus(resps[k])
            /\ resps[k].status \notin Transient) =>
                /\ k = Len(resps)
                /\ Len(sleeps) < k
                /\ pc = "exit" /\ exit_code = 1
                /\ stderr = "ERROR: " \o Cause(resps[k])

\* C7: feed.xml is opened and written only after fetch and normalisation succeeded; a
\* failed run exits non-zero with a message and leaves no partial or truncated
\* feed.xml; a run exits 0 only when all of the normalised document is written.
C7_NoPartialOutput ==
    /\ file.state \notin {"absent", "previous"} =>
            /\ pc \in {"write", "exit"}
            /\ FetchReturned /\ xml_text.wellformed /\ out_xml # NoBytes
    /\ (pc = "exit" /\ exit_code # 0) =>
            /\ stderr # ""
            /\ file.state \in {"absent", "previous"}
    /\ (pc = "exit" /\ exit_code = 0) => file = File("complete", out_xml)
    /\ pc = "exit" <=> exit_code # -1

\* min(3 * 2^(k-1), 30)
SleepBefore(k) ==
    IF BackoffStart * 2^(k - 1) < BackoffCap THEN BackoffStart * 2^(k - 1) ELSE BackoffCap

\* C10: fetch_source with max_retries = n makes at most n GETs, so at most n - 1
\* retries, and when all fail it ends in failure after the n-th; the sleep before the
\* k-th retry is min(3 * 2^(k-1), 30) seconds, no sleep follows the final attempt, and
\* the first successful response ends the loop, its text being returned.
C10_BoundedRetriesWithBackoff ==
    /\ attempt <= max_retries
    /\ Len(resps) <= max_retries
    /\ \A k \in 1..Len(sleeps) : sleeps[k] = SleepBefore(k)
    /\ \A k \in 1..Len(resps) : ~Fails(resps[k]) => k = Len(resps)
    /\ pc = "fetch" => (Len(resps) = attempt - 1 /\ Len(sleeps) = attempt - 1)
    /\ FetchRaised =>
            /\ Len(resps) = max_retries
            /\ Len(sleeps) = max_retries - 1
            /\ exit_code = 1
    /\ FetchReturned =>
            /\ pc # "fetch"
            /\ Len(sleeps) = Len(resps) - 1
            /\ xml_text = Last(resps).text

\* six transient responses to max_retries = 6: sleeps of 3, 6, 12, 24 and 30, then failure
C10_Witness ==
    /\ FetchRaised
    /\ \A k \in 1..Len(resps) : resps[k].status \in Transient
    /\ sleeps = <<3, 6, 12, 24, 30>>
    /\ exit_code = 1

====
